---- MODULE Spec2Model ----
(***************************************************************************)
(* Model of arduino_detector.py: ArduinoDetector and main().               *)
(*                                                                         *)
(* The environment is the /dev directory (fs) and the behaviour of the     *)
(* system_profiler process (collaborator).  A behaviour fixes one          *)
(* environment and runs main() on it, up to MaxScans times in a row.       *)
(* Python strings are TLA+ strings; str.lower, the `in' substring test,    *)
(* string comparison and glob's trailing-star match are computed           *)
(* character by character.                                                 *)
(***************************************************************************)
EXTENDS Integers, Sequences, FiniteSets, TLC

VARIABLES fs, collaborator, pc, scans, serial_ports, usb_devices,
          arduino_devices, usb_data, devices, output, exc,
          ports_returns, usb_returns

vars == <<fs, collaborator, pc, scans, serial_ports, usb_devices,
          arduino_devices, usb_data, devices, output, exc,
          ports_returns, usb_returns>>

(***************************************************************************)
(* Bounds.                                                                 *)
(***************************************************************************)
\* largest number of device nodes in one generated USB tree
MaxNodes == 3
\* number of consecutive runs of main() in one behaviour
MaxScans == 2

(***************************************************************************)
(* Python strings.                                                         *)
(***************************************************************************)
\* the characters the modelled strings use, in code-point order
CodePoints ==
  " -./0123456789:ABCDEFGHIJKLMNOPQRSTUVWXYZ_abcdefghijklmnopqrstuvwxyz"

UpperCase == "ABCDEFGHIJKLMNOPQRSTUVWXYZ"
LowerCase == "abcdefghijklmnopqrstuvwxyz"

CharAt(s, i) == SubSeq(s, i, i)

\* rank of a character in code-point order
ord(c) == CHOOSE i \in 1..Len(CodePoints) : CharAt(CodePoints, i) = c

lower_char(c) ==
  IF \E i \in 1..Len(UpperCase) : CharAt(UpperCase, i) = c
  THEN CharAt(LowerCase, CHOOSE i \in 1..Len(UpperCase) : CharAt(UpperCase, i) = c)
  ELSE c

RECURSIVE lower(_)
\* str.lower()
lower(s) ==
  IF Len(s) = 0 THEN ""
  ELSE lower_char(CharAt(s, 1)) \o lower(SubSeq(s, 2, Len(s)))

\* the substring test (sub in s) on strings
contains(s, sub) ==
  \E i \in 1..(Len(s) - Len(sub) + 1) : SubSeq(s, i, i + Len(sub) - 1) = sub

startswith(s, prefix) ==
  Len(prefix) <= Len(s) /\ SubSeq(s, 1, Len(prefix)) = prefix

\* Python's a < b on strings: code points at the first difference, else length
str_less(a, b) ==
  LET n    == IF Len(a) < Len(b) THEN Len(a) ELSE Len(b)
      diff == {i \in 1..n : CharAt(a, i) # CharAt(b, i)}
  IN  IF diff = {} THEN Len(a) < Len(b)
      ELSE LET i == CHOOSE j \in diff : \A k \in diff : j <= k
           IN  ord(CharAt(a, i)) < ord(CharAt(b, i))

Range(seq) == {seq[i] : i \in 1..Len(seq)}

RECURSIVE sorted_desc(_)
\* variant: sorted(..., reverse=True)
sorted_desc(S) ==
  IF S = {} THEN <<>>
  ELSE LET m == CHOOSE x \in S : \A y \in S : y = x \/ str_less(y, x)
       IN  <<m>> \o sorted_desc(S \ {m})

RECURSIVE sorted(_)
\* sorted(list(set(..))) of strings: ascending
sorted(S) ==
  IF S = {} THEN <<>>
  ELSE LET m == CHOOSE x \in S : \A y \in S : y = x \/ str_less(x, y)
       IN  <<m>> \o sorted(S \ {m})

(***************************************************************************)
(* get_serial_ports                                                        *)
(***************************************************************************)
patterns == << "/dev/cu.usbserial*",
               "/dev/cu.usbmodem*",
               "/dev/cu.wchusbserial*",
               "/dev/tty.usbserial*",
               "/dev/tty.usbmodem*",
               "/dev/tty.wchusbserial*" >>

\* fnmatch of a pattern whose only wildcard is its trailing star
fnmatch(path, pattern) ==
  startswith(path, SubSeq(pattern, 1, Len(pattern) - 1))

\* glob.glob(pattern): the entries of /dev the pattern matches
glob(entries, pattern) == {p \in entries : fnmatch(p, pattern)}

RECURSIVE set_to_list(_)
\* a set's elements as a list, in no order the caller may rely on
set_to_list(S) ==
  IF S = {} THEN <<>>
  ELSE LET x == CHOOSE y \in S : TRUE IN <<x>> \o set_to_list(S \ {x})

RECURSIVE extend_patterns(_, _, _)
\* the loop of lines 48-49, from pattern i on: list.extend(glob.glob(pattern))
extend_patterns(list, entries, i) ==
  IF i > Len(patterns) THEN list
  ELSE extend_patterns(list \o set_to_list(glob(entries, patterns[i])), entries, i + 1)

\* the return value of get_serial_ports on a /dev holding `entries'
get_serial_ports_value(entries) ==
  LET found == extend_patterns(<<>>, entries, 1)
  IN  sorted(Range(found))

(***************************************************************************)
(* JSON values and the USB tree                                            *)
(***************************************************************************)
\* a value under a key of a JSON object: a string, another JSON scalar, or
\* no such key
Absent   == [t |-> "absent", v |-> ""]
Str(s)   == [t |-> "str", v |-> s]
Num(s)   == [t |-> "num", v |-> s]

\* dict.get(key, default) with a string default
get(value, default) == IF value.t = "absent" THEN Str(default) ELSE value

ARDUINO_IDS ==
  [id \in {"0x2341", "0x1a86", "0x0403", "0x10c4", "0x067b"} |->
     CASE id = "0x2341" -> "Arduino"
       [] id = "0x1a86" -> "CH340/CH341"
       [] id = "0x0403" -> "FTDI"
       [] id = "0x10c4" -> "Silicon Labs"
       [] id = "0x067b" -> "Prolific"]

\* ARDUINO_IDS.get(vendor_id, 'Unknown')
ids_get(vendor_id) ==
  IF vendor_id \in DOMAIN ARDUINO_IDS THEN ARDUINO_IDS[vendor_id] ELSE "Unknown"

\* variant: the vendor test alone, without the name keywords
is_arduino_vendor_only(vendor_id, product_name) ==
  vendor_id \in DOMAIN ARDUINO_IDS

\* lines 79-86, on the lower-cased vendor ID and name
is_arduino(vendor_id, product_name) ==
  \/ vendor_id \in DOMAIN ARDUINO_IDS
  \/ contains(product_name, "arduino")
  \/ contains(product_name, "serial")
  \/ contains(product_name, "ch340")
  \/ contains(product_name, "ftdi")
  \/ contains(product_name, "usb2.0-serial")

\* variant: the manufacturer looked up under the vendor ID as written, not
\* lower-cased
device_info_raw_lookup(item, vendor_id) ==
  [ name          |-> get(item["_name"], "Unknown"),
    vendor_id     |-> get(item.vendor_id, "Unknown"),
    product_id    |-> get(item.product_id, "Unknown"),
    version       |-> get(item.bcd_device, "Unknown"),
    speed         |-> get(item.speed, "Unknown"),
    location_id   |-> get(item.location_id, "Unknown"),
    manufacturer  |-> Str(ids_get(get(item.vendor_id, "").v)),
    serial_number |-> get(item.serial_num, "Unknown") ]

\* lines 89-98
device_info(item, vendor_id) ==
  [ name          |-> get(item["_name"], "Unknown"),
    vendor_id     |-> get(item.vendor_id, "Unknown"),
    product_id    |-> get(item.product_id, "Unknown"),
    version       |-> get(item.bcd_device, "Unknown"),
    speed         |-> get(item.speed, "Unknown"),
    location_id   |-> get(item.location_id, "Unknown"),
    manufacturer  |-> Str(ids_get(vendor_id)),
    serial_number |-> get(item.serial_num, "Unknown") ]

\* lines 74-76 call .lower() on what get returned: a value that is not a
\* string has no such method
lower_raises(item) ==
  \/ get(item.vendor_id, "").t # "str"
  \/ get(item.product_id, "").t # "str"
  \/ get(item["_name"], "").t # "str"

RECURSIVE search_usb_tree(_, _)

\* variant: the recursion nested under `if is_arduino'
descends_if_matched(matched, item) == matched /\ item.has_items

\* line 102: the traversal descends when the key _items is present, whether
\* or not the node matched
descends(matched, item) == item.has_items

\* lines 88-99
append_device(item, vendor_id, matched, st) ==
  IF matched
  THEN [st EXCEPT !.arduino_devices = Append(@, device_info(item, vendor_id))]
  ELSE st

\* lines 102-103
search_children(item, matched, st) ==
  IF descends(matched, item) THEN search_usb_tree(item["_items"], st) ELSE st

\* variant: the children searched before the record is appended
children_then_item(item, vendor_id, matched, st) ==
  LET st1 == search_children(item, matched, st)
  IN  IF st1.raised # "none" THEN st1 ELSE append_device(item, vendor_id, matched, st1)

\* lines 88-103: the record is appended, then the children are searched
item_then_children(item, vendor_id, matched, st) ==
  search_children(item, matched, append_device(item, vendor_id, matched, st))

\* lines 70-103: the loop over items; an exception ends it
search_usb_tree(items, st) ==
  IF st.raised # "none" \/ Len(items) = 0 THEN st
  ELSE LET item == Head(items)
       IN  IF lower_raises(item)
           THEN [st EXCEPT !.raised = "AttributeError"]
           ELSE LET vendor_id    == lower(get(item.vendor_id, "").v)
                    product_name == lower(get(item["_name"], "").v)
                    matched      == is_arduino(vendor_id, product_name)
                IN  search_usb_tree(Tail(items),
                      item_then_children(item, vendor_id, matched, st))

RECURSIVE search_buses(_, _)
\* lines 106-108
search_buses(buses, st) ==
  IF st.raised # "none" \/ Len(buses) = 0 THEN st
  ELSE LET bus == Head(buses)
           st1 == IF bus.has_items THEN search_usb_tree(bus["_items"], st) ELSE st
       IN  search_buses(Tail(buses), st1)

(***************************************************************************)
(* get_usb_device_info                                                     *)
(***************************************************************************)
\* variant: the list kept from the previous call
stale_arduino_devices == arduino_devices

\* line 68: the list the traversal appends to
new_arduino_devices == <<>>

\* usb_data.get('SPUSBDataType', [])
buses_of(doc) == IF doc.has_key THEN doc.SPUSBDataType ELSE <<>>

\* What one call does with the collaborator `c': the value it returns, the
\* exception that leaves it ("none" when it returns), whether the except
\* clause of lines 112-114 ran, and the document json.loads produced.
get_usb_device_info_value(c) ==
  CASE c.outcome = "not_found" ->
         \* subprocess.run raises FileNotFoundError; line 112 does not name it
         [ret |-> <<>>, raised |-> "FileNotFoundError", handled |-> FALSE]
    [] c.outcome = "nonzero_exit" ->
         \* check=True: CalledProcessError, caught
         [ret |-> <<>>, raised |-> "none", handled |-> TRUE]
    [] c.outcome = "bad_json" ->
         \* json.loads: JSONDecodeError, caught
         [ret |-> <<>>, raised |-> "none", handled |-> TRUE]
    [] c.outcome = "ok" ->
         IF c.stdout.top # "dict"
         THEN \* line 106: a JSON array has no .get
              [ret |-> <<>>, raised |-> "AttributeError", handled |-> FALSE]
         ELSE LET st == search_buses(buses_of(c.stdout),
                          [arduino_devices |-> new_arduino_devices, raised |-> "none"])
              IN  IF st.raised # "none"
                  THEN [ret |-> <<>>, raised |-> st.raised, handled |-> FALSE]
                  ELSE [ret |-> st.arduino_devices, raised |-> "none", handled |-> FALSE]

(***************************************************************************)
(* detect_arduino_devices, print_device_info                               *)
(***************************************************************************)
\* variant: the candidates counted as well
total_of_both(ports, usb) == Len(ports) + Len(usb)

\* line 132
total_devices_of(ports, usb) == Len(ports)

\* lines 129-133
scan_result(ports, usb) ==
  [serial_ports |-> ports, usb_devices |-> usb,
   total_devices |-> total_devices_of(ports, usb)]

NoResult == scan_result(<<>>, <<>>)

\* a block of printed lines: which block, the number its heading shows, and
\* the payload of each line under the heading
Section(sec, count, lines) == [sec |-> sec, count |-> count, lines |-> lines]

RECURSIVE select_seq(_, _)
\* the elements of a list of strings that contain `sub', in order
select_seq(list, sub) ==
  IF Len(list) = 0 THEN <<>>
  ELSE (IF contains(Head(list), sub) THEN <<Head(list)>> ELSE <<>>)
       \o select_seq(Tail(list), sub)

\* lines 160-169: the lines of one device
device_lines(device) ==
  << "Name: " \o device.name.v,
     "Manufacturer: " \o device.manufacturer.v,
     "Vendor ID: " \o device.vendor_id.v,
     "Product ID: " \o device.product_id.v,
     "Version: " \o device.version.v,
     "Speed: " \o device.speed.v,
     "Location: " \o device.location_id.v >>
  \o (IF device.serial_number # Str("Unknown")
      THEN << "Serial Number: " \o device.serial_number.v >>
      ELSE <<>>)

RECURSIVE details_lines(_)
details_lines(list) ==
  IF Len(list) = 0 THEN <<>>
  ELSE device_lines(Head(list)) \o details_lines(Tail(list))

\* lines 171-175: the heading, then the ports with 'cu.' in them
usage_section(ports) ==
  << Section("usage", 0, select_seq(ports, "cu.")) >>

\* print_device_info(devices): the blocks it prints, in order
print_device_info_value(d) ==
  << Section("title", 0, <<>>) >> \o
  (IF d.total_devices = 0
   THEN << Section("none_found", 0, <<>>), Section("tips", 0, <<>>) >>
   ELSE << Section("found", d.total_devices, <<>>),
           Section("serial_ports", Len(d.serial_ports), d.serial_ports) >>
        \o (IF Len(d.usb_devices) # 0
            THEN << Section("usb_details", Len(d.usb_devices),
                            details_lines(d.usb_devices)) >>
            ELSE <<>>)
        \o usage_section(d.serial_ports))

(***************************************************************************)
(* The environments a behaviour may start in                               *)
(***************************************************************************)
\* entries of /dev
DevEntries ==
  { "/dev/cu.usbserial-1410",
    "/dev/tty.usbserial-1410",
    "/dev/cu.usbmodem14101",
    "/dev/cu.wchusbserial1410",
    "/dev/cu.Bluetooth-Incoming-Port",
    "/dev/tty.usbserial-cu.1" }

Attrs(name, vendor, product, bcd, speed, location, serial) ==
  [ _name |-> name, vendor_id |-> vendor, product_id |-> product,
    bcd_device |-> bcd, speed |-> speed, location_id |-> location,
    serial_num |-> serial ]

\* a device node: its attributes and, when the key is present, its _items
Node(attrs, has_items, items) ==
  [ _name |-> attrs["_name"], vendor_id |-> attrs.vendor_id,
    product_id |-> attrs.product_id, bcd_device |-> attrs.bcd_device,
    speed |-> attrs.speed, location_id |-> attrs.location_id,
    serial_num |-> attrs.serial_num,
    has_items |-> has_items, _items |-> items ]

Uno == Attrs(Str("Arduino Uno"), Str("0x2341"), Str("0x0043"), Str("0.01"),
             Str("full_speed"), Str("0x14100000"), Str("55739323"))
Clone == Attrs(Str("USB2.0-Serial"), Str("0x1A86"), Str("0x7523"), Absent,
               Absent, Str("0x14200000"), Absent)
Hub == Attrs(Str("USB2.0 Hub"), Str("0x05e3"), Str("0x0608"), Str("88.32"),
             Str("high_speed"), Str("0x14000000"), Absent)
Keyboard == Attrs(Str("Keyboard"), Str("0x05ac"), Str("0x024f"), Absent,
                  Absent, Absent, Absent)
BareCH340 == Attrs(Absent, Str("0x1a86"), Absent, Absent, Absent, Absent, Absent)
SerialOther == Attrs(Str("USB2.0-Serial"), Str("0x9999"), Absent, Absent,
                     Absent, Absent, Absent)
FtdiNoVendor == Attrs(Str("FT232R FTDI UART"), Absent, Str("0x6001"), Absent,
                      Absent, Absent, Str("A6004byf"))
Bare == Attrs(Absent, Absent, Absent, Absent, Absent, Absent, Absent)
NoPrefix == Attrs(Str("Widget"), Str("2341"), Absent, Absent, Absent, Absent, Absent)
NumSerial == Attrs(Str("Arduino Nano"), Str("0X2341"), Str("0x0058"), Num("1"),
                   Absent, Absent, Num("12345"))
NumVendor == Attrs(Str("Arduino Uno"), Num("9025"), Str("0x0043"), Absent,
                   Absent, Absent, Absent)
NumProduct == Attrs(Str("Keyboard"), Str("0x05ac"), Num("591"), Absent,
                    Absent, Absent, Absent)
NullName == Attrs(Num("null"), Str("0x1a86"), Absent, Absent, Absent, Absent, Absent)
Ftdi == Attrs(Str("FT232R USB UART"), Str("0x0403"), Str("0x6001"), Absent,
              Absent, Absent, Absent)
CP210x == Attrs(Str("CP2102 USB to UART Bridge Controller"), Str("0x10c4"),
                Str("0xea60"), Absent, Absent, Absent, Absent)
PL2303 == Attrs(Str("USB-Serial Controller"), Str("0x067B"), Str("0x2303"), Absent,
                Absent, Absent, Absent)

\* the node kinds trees are built from, and those that come alone
TreeKinds == {Uno, Clone, Hub}
WellFormedKinds == TreeKinds \cup {Keyboard, BareCH340, SerialOther, FtdiNoVendor,
                                   Bare, NoPrefix, NumSerial, Ftdi, CP210x, PL2303}
MalformedKinds == {NumVendor, NumProduct, NullName}

RECURSIVE Forests(_, _)
\* the lists of trees over the kinds K that hold exactly n nodes
Forests(K, n) ==
  IF n = 0 THEN {<<>>}
  ELSE UNION { { <<Node(k, Len(children) > 0, children)>> \o rest :
                   k \in K, children \in Forests(K, j - 1), rest \in Forests(K, n - j) }
               : j \in 1..n }

Bus(has_items, items) == [has_items |-> has_items, _items |-> items]

Doc(buses) == [top |-> "dict", has_key |-> TRUE, SPUSBDataType |-> buses]
\* {} : no SPUSBDataType key
EmptyDoc == [top |-> "dict", has_key |-> FALSE, SPUSBDataType |-> <<>>]
\* [] : a JSON array at the top
ListDoc == [top |-> "list", has_key |-> FALSE, SPUSBDataType |-> <<>>]

Ran(doc) == [outcome |-> "ok", stdout |-> doc]
Failed(how) == [outcome |-> how, stdout |-> EmptyDoc]

Failures == {Failed("not_found"), Failed("nonzero_exit"), Failed("bad_json")}

\* one bus holding a forest of at most MaxNodes nodes
TreeDocs == { Ran(Doc(<<Bus(TRUE, f)>>)) : f \in UNION {Forests(TreeKinds, n) : n \in 0..MaxNodes} }

\* one bus holding a single node of any kind, with and without an empty _items
SingleDocs ==
  { Ran(Doc(<<Bus(TRUE, <<Node(k, e, <<>>)>>)>>)) :
      k \in WellFormedKinds \cup MalformedKinds, e \in BOOLEAN }

\* a malformed node below and after well-formed ones
DeepMalformedDocs ==
  { Ran(Doc(<<Bus(TRUE, <<Node(Uno, TRUE, <<Node(k, FALSE, <<>>)>>)>>)>>)) :
      k \in MalformedKinds }

\* several buses, one of them without _items
MultiBusDocs ==
  { Ran(Doc(<<Bus(TRUE, <<Node(a, FALSE, <<>>)>>), Bus(FALSE, <<>>),
              Bus(TRUE, <<Node(b, FALSE, <<>>)>>)>>)) : a \in TreeKinds, b \in TreeKinds }

ShapeDocs == {Ran(EmptyDoc), Ran(ListDoc), Ran(Doc(<<>>)), Ran(Doc(<<Bus(FALSE, <<>>)>>))}

Collaborators ==
  Failures \cup TreeDocs \cup SingleDocs \cup DeepMalformedDocs \cup MultiBusDocs \cup ShapeDocs

\* the collaborators every /dev is combined with
FewCollaborators ==
  Failures \cup {Ran(EmptyDoc), Ran(ListDoc),
                 Ran(Doc(<<Bus(TRUE, <<Node(Uno, FALSE, <<>>)>>)>>))}

\* the /dev directories every collaborator is combined with
FewDirectories == { {}, {"/dev/cu.usbserial-1410", "/dev/tty.usbserial-1410"} }

(***************************************************************************)
(* The program                                                             *)
(***************************************************************************)
Init ==
  /\ \/ fs \in SUBSET DevEntries /\ collaborator \in FewCollaborators
     \/ fs \in FewDirectories /\ collaborator \in Collaborators
  /\ pc = "main"
  /\ scans = 1
  /\ serial_ports = <<>>
  /\ usb_devices = <<>>
  /\ arduino_devices = <<>>
  /\ usb_data = EmptyDoc
  /\ devices = NoResult
  /\ output = <<>>
  /\ exc = "none"
  /\ ports_returns = <<>>
  /\ usb_returns = <<>>

\* main(), lines 179-183, and line 121: the banner, then the scan starts
main_start ==
  /\ pc = "main"
  /\ output' = << Section("banner", 0, <<>>), Section("scanning", 0, <<>>) >>
  /\ pc' = "get_serial_ports"
  /\ UNCHANGED <<fs, collaborator, scans, serial_ports, usb_devices,
                 arduino_devices, usb_data, devices, exc, ports_returns, usb_returns>>

\* line 124
get_serial_ports ==
  /\ pc = "get_serial_ports"
  /\ serial_ports' = get_serial_ports_value(fs)
  /\ ports_returns' = Append(ports_returns, serial_ports')
  /\ pc' = "get_usb_device_info"
  /\ UNCHANGED <<fs, collaborator, scans, usb_devices, arduino_devices, usb_data,
                 devices, output, exc, usb_returns>>

\* line 127: the call returns a list, or an exception leaves it and, caught
\* nowhere, ends main()
get_usb_device_info ==
  /\ pc = "get_usb_device_info"
  /\ LET r == get_usb_device_info_value(collaborator)
     IN  /\ usb_data' = IF collaborator.outcome = "ok" THEN collaborator.stdout ELSE usb_data
         /\ IF r.raised # "none"
            THEN /\ exc' = r.raised
                 /\ pc' = "crashed"
                 /\ UNCHANGED <<usb_devices, arduino_devices, output, usb_returns>>
            ELSE /\ usb_devices' = r.ret
                 /\ arduino_devices' = IF r.handled THEN arduino_devices ELSE r.ret
                 /\ usb_returns' = Append(usb_returns, r.ret)
                 /\ output' = IF r.handled
                              THEN Append(output, Section("usb_error", 0, <<>>))
                              ELSE output
                 /\ pc' = "detect_return"
                 /\ exc' = exc
  /\ UNCHANGED <<fs, collaborator, scans, serial_ports, devices, ports_returns>>

\* lines 129-133
detect_return ==
  /\ pc = "detect_return"
  /\ devices' = scan_result(serial_ports, usb_devices)
  /\ pc' = "print_device_info"
  /\ UNCHANGED <<fs, collaborator, scans, serial_ports, usb_devices, arduino_devices,
                 usb_data, output, exc, ports_returns, usb_returns>>

\* line 184
print_device_info ==
  /\ pc = "print_device_info"
  /\ output' = output \o print_device_info_value(devices)
  /\ pc' = "printed"
  /\ UNCHANGED <<fs, collaborator, scans, serial_ports, usb_devices, arduino_devices,
                 usb_data, devices, exc, ports_returns, usb_returns>>

\* line 186
main_finish ==
  /\ pc = "printed"
  /\ output' = Append(output, Section("rule", 0, <<>>))
  /\ pc' = "done"
  /\ UNCHANGED <<fs, collaborator, scans, serial_ports, usb_devices, arduino_devices,
                 usb_data, devices, exc, ports_returns, usb_returns>>

\* main() is run again on the same /dev and the same collaborator
main_again ==
  /\ pc \in {"done", "crashed"}
  /\ scans < MaxScans
  /\ scans' = scans + 1
  /\ pc' = "main"
  /\ exc' = "none"
  /\ output' = <<>>
  /\ UNCHANGED <<fs, collaborator, serial_ports, usb_devices, arduino_devices,
                 usb_data, devices, ports_returns, usb_returns>>

Next ==
  \/ main_start
  \/ get_serial_ports
  \/ get_usb_device_info
  \/ detect_return
  \/ print_device_info
  \/ main_finish
  \/ main_again

Spec == Init /\ [][Next]_vars

(***************************************************************************)
(* Vocabulary of the properties                                            *)
(***************************************************************************)
RECURSIVE PathsOf(_)
\* the positions of the nodes of a list of trees, as index paths
PathsOf(items) ==
  UNION { {<<i>>} \cup
          { <<i>> \o q : q \in (IF items[i].has_items
                                THEN PathsOf(items[i]["_items"]) ELSE {}) }
          : i \in 1..Len(items) }

RECURSIVE NodeAt(_, _)
NodeAt(items, path) ==
  IF Len(path) = 1 THEN items[path[1]]
  ELSE NodeAt(items[path[1]]["_items"], Tail(path))

\* the positions of all device nodes of a document: bus index, then the path
DevicePaths(doc) ==
  LET buses == buses_of(doc)
  IN  UNION { IF buses[b].has_items
              THEN { <<b>> \o q : q \in PathsOf(buses[b]["_items"]) }
              ELSE {}
              : b \in 1..Len(buses) }

DeviceAt(doc, path) == NodeAt(buses_of(doc)[path[1]]["_items"], Tail(path))

\* p comes before q in depth-first pre-order: p is a proper prefix of q, or
\* at the first index where they differ p has the earlier sibling
PathBefore(p, q) ==
  \E k \in 1..Len(q) :
     /\ k <= Len(p) + 1
     /\ \A j \in 1..(k - 1) : p[j] = q[j]
     /\ \/ k = Len(p) + 1
        \/ p[k] < q[k]

RECURSIVE PreOrder(_)
\* a set of paths as a sequence in pre-order
PreOrder(S) ==
  IF S = {} THEN <<>>
  ELSE LET m == CHOOSE x \in S : \A y \in S : y = x \/ PathBefore(x, y)
       IN  <<m>> \o PreOrder(S \ {m})

Keywords == {"arduino", "serial", "ch340", "ftdi", "usb2.0-serial"}

StrOr(value, default) == IF value.t = "str" THEN value.v ELSE default

\* the classification predicate as the specification words it
Classified(node) ==
  \/ lower(StrOr(node.vendor_id, "")) \in DOMAIN ARDUINO_IDS
  \/ \E k \in Keywords : contains(lower(StrOr(node["_name"], "")), k)

ClassifiedPaths(doc) == {q \in DevicePaths(doc) : Classified(DeviceAt(doc, q))}

\* the record shows the node's attributes, "Unknown" for each absent one
Shows(rec, node) ==
  /\ rec.name = (IF node["_name"] = Absent THEN Str("Unknown") ELSE node["_name"])
  /\ rec.vendor_id = (IF node.vendor_id = Absent THEN Str("Unknown") ELSE node.vendor_id)
  /\ rec.product_id = (IF node.product_id = Absent THEN Str("Unknown") ELSE node.product_id)
  /\ rec.version = (IF node.bcd_device = Absent THEN Str("Unknown") ELSE node.bcd_device)
  /\ rec.speed = (IF node.speed = Absent THEN Str("Unknown") ELSE node.speed)
  /\ rec.location_id = (IF node.location_id = Absent THEN Str("Unknown") ELSE node.location_id)
  /\ rec.serial_number = (IF node.serial_num = Absent THEN Str("Unknown") ELSE node.serial_num)

\* get_usb_device_info has acted in the current run of main()
CallDone == pc \in {"detect_return", "print_device_info", "printed", "done", "crashed"}

\* get_usb_device_info has just returned its list into usb_devices
Returned == pc = "detect_return"

\* the collaborator ran and printed a JSON object
GotTree == collaborator.outcome = "ok" /\ collaborator.stdout.top = "dict"

HasSection(name) == \E i \in 1..Len(output) : output[i].sec = name

SectionLines(name) ==
  LET i == CHOOSE j \in 1..Len(output) : output[j].sec = name IN output[i].lines

Reported == pc \in {"printed", "done"}

C2_PreOrder ==
  (GotTree /\ Returned) =>
    LET doc   == collaborator.stdout
        order == PreOrder(ClassifiedPaths(doc))
    IN  /\ Len(usb_devices) = Len(order)
        /\ \A k \in 1..Len(order) : Shows(usb_devices[k], DeviceAt(doc, order[k]))

\* a matching parent whose matching child, of another kind, is followed by
\* a matching sibling of the parent: all three returned
C2_Witness ==
  /\ GotTree /\ Returned
  /\ Len(usb_devices) >= 3
  /\ \E q \in ClassifiedPaths(collaborator.stdout) :
        LET doc    == collaborator.stdout
            parent == SubSeq(q, 1, Len(q) - 1)
        IN  /\ Len(q) > 2
            /\ Classified(DeviceAt(doc, parent))
            /\ DeviceAt(doc, parent)["_name"] # DeviceAt(doc, q)["_name"]
            /\ \E u \in ClassifiedPaths(doc) : Len(u) = Len(parent) /\ PathBefore(q, u)

(***************************************************************************)
(* C3.  When the collaborator cannot be queried (command unreachable,      *)
(* non-zero exit, unparsable output) get_usb_device_info returns the empty *)
(* sequence and nothing propagates: the scan goes on to the report with    *)
(* the Path Scanner's paths.                                               *)
(***************************************************************************)
C3_FailureGivesEmpty ==
  (collaborator.outcome \in {"not_found", "nonzero_exit", "bad_json"} /\ CallDone) =>
     /\ exc = "none"
     /\ pc # "crashed"
     /\ usb_devices = <<>>
     /\ (Reported => devices.serial_ports = get_serial_ports_value(fs))

(***************************************************************************)
(* C4.  A node is a candidate if and only if its lower-cased vendor ID has *)
(* an entry in the chipset table or its lower-cased name contains one of   *)
(* the five keywords.                                                      *)
(***************************************************************************)
C4_CandidateIffClassified ==
  (GotTree /\ Returned) =>
    LET doc == collaborator.stdout
    IN  \A q \in DevicePaths(doc) :
           LET node == DeviceAt(doc, q)
           IN  (\E k \in 1..Len(usb_devices) : Shows(usb_devices[k], node))
               <=> Classified(node)

\* a node named USB2.0-Serial with an unrecognised vendor ID, returned
C4_Witness ==
  /\ GotTree /\ Returned
  /\ \E q \in DevicePaths(collaborator.stdout) :
        LET node == DeviceAt(collaborator.stdout, q)
        IN  /\ node["_name"] = Str("USB2.0-Serial")
            /\ lower(StrOr(node.vendor_id, "")) \notin DOMAIN ARDUINO_IDS
            /\ \E k \in 1..Len(usb_devices) : Shows(usb_devices[k], node)

(***************************************************************************)
(* C5.  As claimed: a candidate's manufacturer is the table's label for    *)
(* its normalized vendor ID, the table mapping 2341 to "Arduino            *)
(* (official)", 1a86 to "CH340/CH341", 0403 to "FTDI", 10c4 to "Silicon    *)
(* Labs CP210x", 067b to "Prolific PL2303"; "Unknown" otherwise.           *)
(***************************************************************************)
strip_0x(s) == IF startswith(s, "0x") THEN SubSeq(s, 3, Len(s)) ELSE s

ClaimedLabel(id) ==
  CASE id = "2341" -> "Arduino (official)"
    [] id = "1a86" -> "CH340/CH341"
    [] id = "0403" -> "FTDI"
    [] id = "10c4" -> "Silicon Labs CP210x"
    [] id = "067b" -> "Prolific PL2303"
    [] OTHER -> "Unknown"

C5_ClaimedLabels ==
  (GotTree /\ Returned) =>
    LET doc   == collaborator.stdout
        order == PreOrder(ClassifiedPaths(doc))
    IN  \A k \in 1..Len(usb_devices) :
           usb_devices[k].manufacturer =
             Str(ClaimedLabel(strip_0x(lower(StrOr(DeviceAt(doc, order[k]).vendor_id, "")))))

(***************************************************************************)
(* C5 as amended.  A candidate's manufacturer is the label of its          *)
(* lower-cased vendor ID, 0x prefix included: 0x2341 "Arduino", 0x1a86     *)
(* "CH340/CH341", 0x0403 "FTDI", 0x10c4 "Silicon Labs", 0x067b "Prolific"; *)
(* "Unknown" when the vendor ID is absent or is none of these.             *)
(***************************************************************************)
ActualLabel(id) ==
  CASE id = "0x2341" -> "Arduino"
    [] id = "0x1a86" -> "CH340/CH341"
    [] id = "0x0403" -> "FTDI"
    [] id = "0x10c4" -> "Silicon Labs"
    [] id = "0x067b" -> "Prolific"
    [] OTHER -> "Unknown"

C5_ActualLabels ==
  (GotTree /\ Returned) =>
    LET doc   == collaborator.stdout
        order == PreOrder(ClassifiedPaths(doc))
    IN  /\ Len(usb_devices) = Len(order)
        /\ \A k \in 1..Len(order) :
             usb_devices[k].manufacturer =
               Str(ActualLabel(lower(StrOr(DeviceAt(doc, order[k]).vendor_id, ""))))

\* a candidate whose vendor ID is in the table only once lower-cased
C5_Witness ==
  /\ GotTree /\ Returned
  /\ \E k \in 1..Len(usb_devices) :
        /\ usb_devices[k].vendor_id = Str("0x1A86")
        /\ usb_devices[k].manufacturer = Str("CH340/CH341")

(***************************************************************************)
(* C6.  A missing or malformed optional attribute of a node is never an    *)
(* error: the classifier returns normally and every absent attribute is    *)
(* "Unknown" in the node's record.                                         *)
(***************************************************************************)
C6_AttributesNeverAnError ==
  (GotTree /\ CallDone) =>
     /\ exc = "none"
     /\ Len(usb_returns) > 0
     /\ LET order == PreOrder(ClassifiedPaths(collaborator.stdout))
            r     == usb_returns[Len(usb_returns)]
        IN  /\ Len(r) = Len(order)
            /\ \A k \in 1..Len(order) :
                 Shows(r[k], DeviceAt(collaborator.stdout, order[k]))

(***************************************************************************)
(* C7.  get_serial_ports returns exactly the entries the six patterns      *)
(* match, none twice, in ascending string order (the empty sequence when   *)
(* nothing matches), and the same sequence when run again on the same      *)
(* filesystem.                                                             *)
(***************************************************************************)
SerialPrefixes ==
  { "/dev/cu.usbserial", "/dev/cu.usbmodem", "/dev/cu.wchusbserial",
    "/dev/tty.usbserial", "/dev/tty.usbmodem", "/dev/tty.wchusbserial" }

SerialEntries == {e \in fs : \E x \in SerialPrefixes : startswith(e, x)}

C7_PortsDistinctSortedStable ==
  \A i \in 1..Len(ports_returns) :
     LET r == ports_returns[i]
     IN  /\ Range(r) = SerialEntries
         /\ \A j \in 1..Len(r) : \A k \in 1..Len(r) : j < k => str_less(r[j], r[k])
         /\ (SerialEntries = {} => r = <<>>)
         /\ r = ports_returns[1]

\* a second run over a /dev with matches of several patterns and a stranger
C7_Witness ==
  /\ Len(ports_returns) = 2
  /\ Len(ports_returns[2]) >= 4
  /\ fs # SerialEntries

(***************************************************************************)
(* C8.  With a device-file count of zero the report holds the no-devices   *)
(* notice and the tips and none of the list sections; with a count above   *)
(* zero it holds the list sections and not the notice.  The count is the   *)
(* number of distinct device-file paths of the ScanResult.                 *)
(***************************************************************************)
C8_BranchByPathCount ==
  Reported =>
     /\ devices.total_devices = Cardinality(Range(devices.serial_ports))
     /\ devices.serial_ports = serial_ports
     /\ (devices.total_devices = 0 =>
           /\ HasSection("none_found") /\ HasSection("tips")
           /\ ~HasSection("found") /\ ~HasSection("serial_ports")
           /\ ~HasSection("usb_details") /\ ~HasSection("usage"))
     /\ (devices.total_devices > 0 =>
           /\ ~HasSection("none_found") /\ ~HasSection("tips")
           /\ HasSection("found") /\ HasSection("serial_ports")
           /\ SectionLines("serial_ports") = devices.serial_ports
           /\ (HasSection("usb_details") <=> Len(devices.usb_devices) > 0))

\* no device file but a candidate on the bus: still the no-devices branch
C8_Witness ==
  /\ pc = "done"
  /\ devices.total_devices = 0
  /\ Len(devices.usb_devices) > 0
  /\ HasSection("none_found")

(***************************************************************************)
(* C9.  In the list branch the usage subsection is printed if and only if  *)
(* some path is in the call-out (/dev/cu.) namespace, and it lists exactly *)
(* the call-out paths: no path of the call-in (/dev/tty.) namespace.       *)
(***************************************************************************)
CallOutPaths == {e \in Range(devices.serial_ports) : startswith(e, "/dev/cu.")}

C9_UsageOnlyForCallOut ==
  (Reported /\ devices.total_devices > 0) =>
     /\ HasSection("usage") <=> CallOutPaths # {}
     /\ HasSection("usage") => Range(SectionLines("usage")) = CallOutPaths

(***************************************************************************)
(* C10.  A scan carries nothing over to the next: the candidate list is    *)
(* built afresh by every call, so consecutive calls of get_usb_device_info *)
(* on the same topology return equal sequences, and the document the       *)
(* traversal ran over is still the one the collaborator printed.           *)
(***************************************************************************)
C10_NothingCarriedOver ==
  /\ \A i \in 1..Len(usb_returns) : usb_returns[i] = usb_returns[1]
  /\ (GotTree /\ CallDone) => usb_data = collaborator.stdout

\* a second call that returned two or more candidates
C10_Witness ==
  /\ GotTree
  /\ Len(usb_returns) = 2
  /\ Len(usb_returns[2]) >= 2

====
